---- MODULE Spec2Model ----
(***************************************************************************)
(* Model of the REST client / session layer of the Check Point agent:      *)
(*   src/agentic/checkpoint-quantum-agent/src/api/checkpoint_client.py     *)
(*   src/agentic/checkpoint-quantum-agent/src/api/session_manager.py       *)
(* and of the tool wrappers that drive the client (src/tools/*.py).        *)
(*                                                                         *)
(* Three specifications share the variables and the actions:               *)
(*   SpecRetry  one call of _retry_request, every max_retries and every    *)
(*              sequence of transport outcomes (SpecRetryFair adds the     *)
(*              fairness of a sequential thread);                          *)
(*   Spec       one thread driving a client: domain operations, tool       *)
(*              wrappers, logout, the clock;                               *)
(*   SpecConc   two threads sharing one client instance.                   *)
(*                                                                         *)
(* Abstractions: request bodies, URLs and log calls are left out; a        *)
(* Session keeps sid and session_timeout (url, domain, server and port are  *)
(* copied from the response, Session.last_activity is written once, and    *)
(* none of them is read by the session logic, which uses the manager's     *)
(* _last_activity); an HTTP body is one of five kinds (BodyKinds).         *)
(***************************************************************************)
EXTENDS Integers, Sequences, FiniteSets, TLC

(* ---------------------------- bounds ---------------------------------- *)

\* largest max_retries handed to _retry_request in SpecRetry
MaxRetries == 3

\* largest configured retry_delay (seconds)
MaxDelay == 2

\* largest configured retry_attempts of a client in Spec / SpecConc
ClientRetries == 1

\* the clock value after which no new operation starts and no tick happens
MaxTime == 2

\* largest 'session-timeout' a login response declares
MaxTimeout == 1

\* number of distinct session identifiers the server hands out
NumSids == 2

(* ------------------------ program constants --------------------------- *)

\* SessionManager.__init__: self._session_timeout = 3600; also the default
\* of data.get('session-timeout', 3600)
DefaultSessionTimeout == 3600

\* synthesized status codes of _make_request's exception handlers
TimeoutStatus == 408
ConnectionErrorStatus == 503
ExceptionStatus == 500

\* response.get("status_code", 0) in _retry_request
NoStatus == 0

(* --------------------------- value domains ---------------------------- *)

Procs == {1, 2}

\* HTTP status codes the remote endpoint may answer with: 200, a non-200
\* success code, both ends of the 4xx range, the codes the retry loop names,
\* and server errors.
Statuses == {200, 204, 400, 401, 403, 408, 429, 499, 500, 503}

\* json_msg: JSON object with a "message" member; json: JSON object without;
\* json_scalar: valid JSON that is no container (null, a number);
\* text: non-empty text that is not JSON; empty: empty body
BodyKinds == {"json_msg", "json", "json_scalar", "text", "empty"}

\* what self.session.request(...) does: returns an HTTP response or raises
Outcomes ==
  [kind : {"http"}, status : Statuses, body : BodyKinds]
  \cup [kind : {"timeout", "connerr", "exc"}, status : {NoStatus}, body : {"none"}]

Absent == "absent"

NoEnvelope == [success |-> FALSE, data |-> Absent, message |-> "none", status_code |-> NoStatus]

NoSession == << >>

\* the X-chkp-sid header of a request: the sid it carries (0 is the empty
\* string), or no such header
NoHeader == -1

\* get_session_headers() left through 'raise RuntimeError'
RaisesRuntimeError == -2

VARIABLES
  config,            \* self.config: auth_method, api_key, retry_attempts, retry_delay
  session,           \* SessionManager._session: << >> or <<Session>>
  last_activity,     \* SessionManager._last_activity
  session_timeout,   \* SessionManager._session_timeout
  is_authenticated,  \* SessionManager.is_authenticated
  now,               \* time.time()
  pc,                \* per thread: where it stands
  op,                \* per thread: the operation it runs
  max_retries,       \* per thread: _retry_request's max_retries
  attempt,           \* per thread: the loop variable of _retry_request
  response,          \* per thread: the local 'response' of _retry_request
  ret,               \* per thread: the envelope the operation returned
  hist,              \* per thread: status codes of the envelopes _make_request
                     \*   produced during the current _retry_request, in order
  made,              \* per thread: the envelope of the latest _make_request
  slept,             \* per thread: the delays handed to time.sleep, in order
  ensured,           \* per thread: result of ensure_authenticated() in this
                     \*   operation: "none" (not called), "true", "false"
  logins,            \* per thread: login POSTs issued during this operation
  bret,              \* per thread: the bool returned by login(), logout() or
                     \*   ensure_authenticated(): "none", "true", "false"
  hdr                \* per thread: the X-chkp-sid header of the latest
                     \*   _make_request

vars == <<config, session, last_activity, session_timeout, is_authenticated, now,
          pc, op, max_retries, attempt, response, ret, hist, made, slept,
          ensured, logins, bret, hdr>>

sessionVars == <<session, last_activity, session_timeout, is_authenticated>>

\* the locals and the bookkeeping of one _retry_request
retryVars == <<max_retries, attempt, response, hist, made, slept, hdr>>

NoOp == [kind |-> "none", valid |-> TRUE]

(* --------------------------- _make_request ---------------------------- *)

\* 2 ** n
RECURSIVE Pow2(_)
Pow2(n) == IF n = 0 THEN 1 ELSE 2 * Pow2(n - 1)

\* mutant: a transport timeout is reported as a gateway timeout
MakeEnvelope_Timeout504(o) ==
  CASE o.kind = "timeout" ->
         [success |-> FALSE, data |-> Absent, message |-> "Request timeout",
          status_code |-> 504]
    [] o.kind = "connerr" ->
         [success |-> FALSE, data |-> Absent, message |-> "Connection error",
          status_code |-> ConnectionErrorStatus]
    [] o.kind = "exc" ->
         [success |-> FALSE, data |-> Absent, message |-> "str(e)",
          status_code |-> ExceptionStatus]
    [] o.kind = "http" /\ o.status = 200 ->
         [success |-> TRUE, data |-> o.body, message |-> Absent,
          status_code |-> o.status]
    [] o.kind = "http" /\ o.status # 200 /\ o.body = "json_scalar" ->
         [success |-> FALSE, data |-> Absent, message |-> "str(e)",
          status_code |-> ExceptionStatus]
    [] OTHER ->
         [success |-> FALSE, data |-> Absent,
          message |-> CASE o.body = "json_msg" -> "body.message"
                        [] o.body = "text" -> "body.text"
                        [] OTHER -> "HTTP <status>",
          status_code |-> o.status]

\* The envelope _make_request returns for one outcome of session.request.
MakeEnvelope(o) ==
  CASE o.kind = "timeout" ->
         [success |-> FALSE, data |-> Absent, message |-> "Request timeout",
          status_code |-> TimeoutStatus]
    [] o.kind = "connerr" ->
         [success |-> FALSE, data |-> Absent, message |-> "Connection error",
          status_code |-> ConnectionErrorStatus]
    [] o.kind = "exc" ->
         [success |-> FALSE, data |-> Absent, message |-> "str(e)",
          status_code |-> ExceptionStatus]
    [] o.kind = "http" /\ o.status = 200 ->
         \* response.json() or, on ValueError, response.text
         [success |-> TRUE, data |-> o.body, message |-> Absent,
          status_code |-> o.status]
    [] o.kind = "http" /\ o.status # 200 /\ o.body = "json_scalar" ->
         \* '"message" in error_data' raises TypeError on a non-container;
         \* only ValueError is caught locally, so 'except Exception' answers
         [success |-> FALSE, data |-> Absent, message |-> "str(e)",
          status_code |-> ExceptionStatus]
    [] OTHER ->
         [success |-> FALSE, data |-> Absent,
          message |-> CASE o.body = "json_msg" -> "body.message"
                        [] o.body = "text" -> "body.text"
                        [] OTHER -> "HTTP <status>",
          status_code |-> o.status]

\* mutant: only a 200 response counts as activity
TouchesActivity_Only200(o) == o.kind = "http" /\ o.status = 200

\* SessionManager.get_session_headers(): the sid of the header it returns
GetSessionHeaders ==
  IF session = NoSession THEN RaisesRuntimeError ELSE session[1].sid

\* mutant: the header is built without looking for a session first
RequestHeaders_Unguarded == GetSessionHeaders

\* mutant: the header is left out once the session has expired
RequestHeaders_OnlyWhenFresh ==
  IF session # NoSession /\ now - last_activity < session_timeout
    THEN GetSessionHeaders ELSE NoHeader

\* request_headers of _make_request:
\* if self.session_manager.session: request_headers.update(get_session_headers())
RequestHeaders ==
  IF session # NoSession THEN GetSessionHeaders ELSE NoHeader

\* mutant: a response that rejects the session does not count as activity
TouchesActivity_NotOnAuthError(o) == o.kind = "http" /\ o.status \notin {401, 403}

\* update_activity() runs once session.request has returned a response
TouchesActivity(o) == o.kind = "http"

(* --------------------------- _retry_request --------------------------- *)

\* mutant: tests the payload instead of the success flag
IsSuccess_TruthyData(e) == e.success /\ e.data # "empty"

\* if response["success"]: return response
IsSuccess(e) == e.success

\* if response.get("status_code") in [401, 403]: break
IsAuthError(e) == e.status_code \in {401, 403}

\* mutant: lower bound exclusive
IsNonRetryableClientError_Above400(e) ==
  /\ 400 < e.status_code
  /\ e.status_code < 500
  /\ e.status_code \notin {408, 429}

\* mutant: the exception list is tested the wrong way round
IsNonRetryableClientError_Inverted(e) ==
  /\ 400 <= e.status_code
  /\ e.status_code < 500
  /\ e.status_code \in {408, 429}

\* mutant: 429 is missing from the exception list
IsNonRetryableClientError_No429(e) ==
  /\ 400 <= e.status_code
  /\ e.status_code < 500
  /\ e.status_code \notin {408}

\* if 400 <= status < 500 and status not in [408, 429]: break
IsNonRetryableClientError(e) ==
  /\ 400 <= e.status_code
  /\ e.status_code < 500
  /\ e.status_code \notin {408, 429}

\* mutant: one retry too many
AttemptsRemain_Inclusive(a, mr) == a <= mr

\* mutant: one retry too few
AttemptsRemain_Short(a, mr) == a + 1 < mr

\* if attempt < max_retries: (sleep, then the next iteration)
AttemptsRemain(a, mr) == a < mr

\* mutant: exponent off by one
BackoffDelay_Doubled(retry_delay, a) == retry_delay * Pow2(a + 1)

\* delay = self.config["retry_delay"] * (2 ** attempt)
BackoffDelay(retry_delay, a) == retry_delay * Pow2(a)

\* What the loop body does with the envelope of attempt a:
\*   "return"  leave through 'return response' / 'break'
\*   "sleep"   time.sleep(delay), then iteration a+1
\*   "end"     range(max_retries + 1) is used up, fall out of the loop
LoopStep(e, a, mr) ==
  IF IsSuccess(e) THEN "return"
  ELSE IF IsAuthError(e) THEN "return"
  ELSE IF IsNonRetryableClientError(e) THEN "return"
  ELSE IF AttemptsRemain(a, mr) THEN "sleep"
  ELSE "end"

\* One iteration of the loop up to its sleep: _make_request (header from
\* the stored session, the HTTP call, update_activity, the envelope) and
\* the branch taken on the envelope.
MakeRequest(p, o) ==
  /\ pc[p] = "request"
  /\ hdr' = [hdr EXCEPT ![p] = RequestHeaders]
  /\ IF RequestHeaders = RaisesRuntimeError
       THEN \* raised before the try block: nothing is sent, the exception
            \* leaves _make_request and _retry_request
            /\ pc' = [pc EXCEPT ![p] = "raised"]
            /\ UNCHANGED <<last_activity, response, made, hist, ret>>
       ELSE LET e == MakeEnvelope(o)
                step == LoopStep(e, attempt[p], max_retries[p])
            IN /\ last_activity' = IF TouchesActivity(o) THEN now ELSE last_activity
               /\ response' = [response EXCEPT ![p] = e]
               /\ made' = [made EXCEPT ![p] = e]
               /\ hist' = [hist EXCEPT ![p] = Append(@, e.status_code)]
               /\ IF step = "sleep"
                    THEN /\ pc' = [pc EXCEPT ![p] = "sleep"]
                         /\ ret' = ret
                    ELSE /\ pc' = [pc EXCEPT ![p] = "done"]
                         /\ ret' = [ret EXCEPT ![p] = e]
  /\ UNCHANGED <<config, session, session_timeout, is_authenticated, now, op,
                 max_retries, attempt, slept, ensured, logins, bret>>

\* time.sleep(delay) and the step to the next iteration
Sleep(p) ==
  /\ pc[p] = "sleep"
  /\ LET delay == BackoffDelay(config.retry_delay, attempt[p])
     IN /\ now' = now + delay
        /\ slept' = [slept EXCEPT ![p] = Append(@, delay)]
  /\ attempt' = [attempt EXCEPT ![p] = @ + 1]
  /\ pc' = [pc EXCEPT ![p] = "request"]
  /\ UNCHANGED <<config, sessionVars, op, max_retries, response, ret, hist,
                 made, ensured, logins, bret, hdr>>

\* max_retries of a call: mr = -1 stands for None, which takes
\* config["retry_attempts"]
EffectiveRetries(mr) == IF mr = -1 THEN config.retry_attempts ELSE mr

\* _retry_request called directly with an explicit max_retries >= 0
RetryRequest(p, mr) ==
  /\ pc[p] = "idle"
  /\ pc' = [pc EXCEPT ![p] = "request"]
  /\ op' = [op EXCEPT ![p] = [kind |-> "retry_request", valid |-> TRUE]]
  /\ max_retries' = [max_retries EXCEPT ![p] = EffectiveRetries(mr)]
  /\ UNCHANGED <<config, sessionVars, now, attempt, response, ret, hist, made,
                 slept, ensured, logins, bret, hdr>>

(* ----------------------------- SpecRetry ------------------------------ *)

\* get_checkpoint_config(): the settings the client reads. api_key says
\* whether an API key is configured; only the smart1_cloud flow reads it.
Configs(maxAttempts) ==
  {c \in [auth_method : {"smart1_cloud", "on_premise", "other"},
          api_key : BOOLEAN,
          retry_attempts : 0..maxAttempts,
          retry_delay : 1..MaxDelay] :
     c.auth_method # "smart1_cloud" => c.api_key}

ProcInit ==
  /\ pc = [p \in Procs |-> "idle"]
  /\ op = [p \in Procs |-> NoOp]
  /\ max_retries = [p \in Procs |-> 0]
  /\ attempt = [p \in Procs |-> 0]
  /\ response = [p \in Procs |-> NoEnvelope]
  /\ ret = [p \in Procs |-> NoEnvelope]
  /\ hist = [p \in Procs |-> << >>]
  /\ made = [p \in Procs |-> NoEnvelope]
  /\ slept = [p \in Procs |-> << >>]
  /\ ensured = [p \in Procs |-> "none"]
  /\ logins = [p \in Procs |-> 0]
  /\ bret = [p \in Procs |-> "none"]
  /\ hdr = [p \in Procs |-> NoHeader]

\* SessionManager.__init__
SessionInit ==
  /\ session = NoSession
  /\ last_activity = 0
  /\ session_timeout = DefaultSessionTimeout
  /\ is_authenticated = FALSE

InitRetry ==
  /\ config \in {c \in Configs(0) : c.auth_method = "smart1_cloud" /\ c.api_key}
  /\ SessionInit
  /\ now = 0
  /\ ProcInit

NextRetry ==
  \/ \E mr \in 0..MaxRetries : RetryRequest(1, mr)
  \/ \E o \in Outcomes : MakeRequest(1, o)
  \/ Sleep(1)

SpecRetry == InitRetry /\ [][NextRetry]_vars

\* a sequential thread: the HTTP call returns (the transport has a timeout)
\* and time.sleep returns
SpecRetryFair ==
  /\ SpecRetry
  /\ WF_vars(\E o \in Outcomes : MakeRequest(1, o))
  /\ WF_vars(Sleep(1))

(* -------------------------- SessionManager --------------------------- *)

\* The login endpoint's answer. sid: -1 the body has no 'sid' member,
\* 0 the member is the empty string, 1..NumSids an identifier;
\* timeout: 0 the body has no 'session-timeout' member, else its value;
\* json = FALSE: the body is not JSON, response.json() raises.
LoginResponses ==
  [kind : {"http"}, status : {200}, json : {TRUE},
   sid : (-1)..NumSids, timeout : 0..MaxTimeout]
  \cup [kind : {"http"}, status : {200}, json : {FALSE}, sid : {-1}, timeout : {0}]
  \cup [kind : {"http"}, status : {401, 500}, json : {TRUE}, sid : {-1}, timeout : {0}]
  \cup [kind : {"exc"}, status : {NoStatus}, json : {FALSE}, sid : {-1}, timeout : {0}]

\* mutant: the idle time may equal the timeout
IsSessionValid_Inclusive ==
  /\ session # NoSession
  /\ now - last_activity <= session_timeout

\* _is_session_valid
IsSessionValid ==
  /\ session # NoSession
  /\ now - last_activity < session_timeout

\* mutant: the declared timeout is ignored
DeclaredTimeout_AlwaysDefault(r) == DefaultSessionTimeout

\* data.get('session-timeout', 3600)
DeclaredTimeout(r) == IF r.timeout = 0 THEN DefaultSessionTimeout ELSE r.timeout

\* _login_smart1_cloud after the POST: does it store a session?
Smart1CloudAccepts(r) ==
  /\ r.kind = "http"
  /\ r.status = 200
  /\ r.json
  /\ r.sid > 0

\* mutant: the status code is not tested
OnPremiseAccepts_AnyStatus(r) ==
  /\ r.kind = "http"
  /\ r.json

\* _login_on_premise after the POST: does it store a session?
OnPremiseAccepts(r) ==
  /\ r.kind = "http"
  /\ r.status = 200
  /\ r.json

\* mutant: the configured method is ignored, the on-premise test is applied
LoginAccepts_AlwaysOnPremise(r) == OnPremiseAccepts(r)

\* the login flow of the configured method accepts the response
LoginAccepts(r) ==
  IF config.auth_method = "smart1_cloud" THEN Smart1CloudAccepts(r)
  ELSE OnPremiseAccepts(r)

\* sid=sid (smart1_cloud) / sid=data.get("sid", "") (on_premise)
StoredSid(r) == IF r.sid = -1 THEN 0 ELSE r.sid

\* mutant: a login starts the idle clock from zero
ApplyLogin_ResetsActivity(r) ==
  IF LoginAccepts(r)
    THEN /\ session' = << [sid |-> StoredSid(r),
                           session_timeout |-> DeclaredTimeout(r)] >>
         /\ last_activity' = 0
         /\ session_timeout' = DeclaredTimeout(r)
         /\ is_authenticated' = TRUE
    ELSE UNCHANGED sessionVars

\* The assignments of a login flow once the response is in.
ApplyLogin(r) ==
  IF LoginAccepts(r)
    THEN /\ session' = << [sid |-> StoredSid(r),
                           session_timeout |-> DeclaredTimeout(r)] >>
         /\ last_activity' = now
         /\ session_timeout' = DeclaredTimeout(r)
         /\ is_authenticated' = TRUE
    ELSE UNCHANGED sessionVars

\* mutant: the API key is not looked at
IssuesLoginPost_IgnoresKey ==
  \/ config.auth_method = "smart1_cloud"
  \/ config.auth_method = "on_premise"

\* The dispatch on auth_method shared by login() and ensure_authenticated():
\* TRUE when a login POST is issued; smart1_cloud without an api key and an
\* unknown method return False before any request.
IssuesLoginPost ==
  \/ config.auth_method = "smart1_cloud" /\ config.api_key
  \/ config.auth_method = "on_premise"

(* ----------------------- operations of the client --------------------- *)

\* "domain": a client method without payload validation (delete_object,
\*    show_objects, publish_changes, ...);
\* "validated": create_access_rule / create_host_object (validate_input);
\* "tool": a tool wrapper that calls _retry_request itself (ModifyObjectTool,
\*    CreatePolicyLayerTool, CreatePolicySectionTool,
\*    ModifyThreatExceptionTool, ShowThreatExceptionsTool);
\* "ensure": ensure_authenticated() called on its own (main.py);
\* "login", "logout": the lifecycle calls.
\* valid: the payload / tool input passes its validation.
Operations ==
  [kind : {"validated", "tool"}, valid : BOOLEAN]
  \cup [kind : {"domain", "ensure", "login", "logout"}, valid : {TRUE}]

ClientOps == {"domain", "validated"}

\* where an operation starts
EntryPoint(o) ==
  CASE o.kind \in {"domain", "validated", "ensure"} -> "ensure"
    [] o.kind = "tool" -> "tool"
    [] o.kind = "login" -> "login"
    [] o.kind = "discard_tool" -> "discard_tool"
    [] OTHER -> "logout"

\* mutant: the short-circuit envelope carries no message
AuthFailedEnvelope_NoMessage ==
  [success |-> FALSE, data |-> Absent, message |-> Absent,
   status_code |-> NoStatus]

\* {"success": False, "message": "Authentication failed"}
AuthFailedEnvelope ==
  [success |-> FALSE, data |-> Absent, message |-> "Authentication failed",
   status_code |-> NoStatus]

\* {"success": False, "message": str(e)} of a failed validate_input
ValidationEnvelope ==
  [success |-> FALSE, data |-> Absent, message |-> "Validation error",
   status_code |-> NoStatus]

\* A thread calls an operation of the client or runs a tool.
StartOp(p, o) ==
  /\ pc[p] \in {"idle", "done"}
  /\ now <= MaxTime
  /\ pc' = [pc EXCEPT ![p] = EntryPoint(o)]
  /\ op' = [op EXCEPT ![p] = o]
  /\ max_retries' = [max_retries EXCEPT ![p] = 0]
  /\ attempt' = [attempt EXCEPT ![p] = 0]
  /\ response' = [response EXCEPT ![p] = NoEnvelope]
  /\ ret' = [ret EXCEPT ![p] = NoEnvelope]
  /\ hist' = [hist EXCEPT ![p] = << >>]
  /\ made' = [made EXCEPT ![p] = NoEnvelope]
  /\ slept' = [slept EXCEPT ![p] = << >>]
  /\ ensured' = [ensured EXCEPT ![p] = "none"]
  /\ logins' = [logins EXCEPT ![p] = 0]
  /\ bret' = [bret EXCEPT ![p] = "none"]
  /\ hdr' = [hdr EXCEPT ![p] = NoHeader]
  /\ UNCHANGED <<config, sessionVars, now>>

\* mutant: the result of ensure_authenticated() is ignored
ShortCircuits_Never(ok) == FALSE

\* if not self.ensure_authenticated(): return {... "Authentication failed"}
ShortCircuits(ok) == ~ok

\* What the caller of ensure_authenticated() does with its result ok:
\* the client methods short-circuit, validate, then enter _retry_request.
AfterEnsure(p, ok) ==
  /\ ensured' = [ensured EXCEPT ![p] = IF ok THEN "true" ELSE "false"]
  /\ IF op[p].kind = "ensure"
       THEN /\ pc' = [pc EXCEPT ![p] = "done"]
            /\ bret' = [bret EXCEPT ![p] = IF ok THEN "true" ELSE "false"]
            /\ UNCHANGED <<ret, max_retries>>
       ELSE IF ShortCircuits(ok)
       THEN /\ pc' = [pc EXCEPT ![p] = "done"]
            /\ ret' = [ret EXCEPT ![p] = AuthFailedEnvelope]
            /\ UNCHANGED <<bret, max_retries>>
       ELSE IF op[p].kind = "validated" /\ ~op[p].valid
       THEN /\ pc' = [pc EXCEPT ![p] = "done"]
            /\ ret' = [ret EXCEPT ![p] = ValidationEnvelope]
            /\ UNCHANGED <<bret, max_retries>>
       ELSE /\ pc' = [pc EXCEPT ![p] = "request"]
            /\ max_retries' = [max_retries EXCEPT ![p] = EffectiveRetries(-1)]
            /\ UNCHANGED <<bret, ret>>

\* ensure_authenticated() up to its login POST: the validity check and the
\* dispatch on auth_method.
EnsureAuthenticated(p) ==
  /\ pc[p] = "ensure"
  /\ IF IsSessionValid
       THEN AfterEnsure(p, TRUE) /\ UNCHANGED logins
       ELSE IF IssuesLoginPost
       THEN /\ pc' = [pc EXCEPT ![p] = "login_wait"]
            /\ logins' = [logins EXCEPT ![p] = @ + 1]
            /\ UNCHANGED <<ensured, ret, bret, max_retries>>
       ELSE AfterEnsure(p, FALSE) /\ UNCHANGED logins
  /\ UNCHANGED <<config, sessionVars, now, op, attempt, response, hist, made,
                 slept, hdr>>

\* login() of the client and of the session manager up to the POST
Login(p) ==
  /\ pc[p] = "login"
  /\ IF IssuesLoginPost
       THEN /\ pc' = [pc EXCEPT ![p] = "login_wait"]
            /\ logins' = [logins EXCEPT ![p] = @ + 1]
            /\ UNCHANGED bret
       ELSE /\ pc' = [pc EXCEPT ![p] = "done"]
            /\ bret' = [bret EXCEPT ![p] = "false"]
            /\ UNCHANGED logins
  /\ UNCHANGED <<config, sessionVars, now, op, retryVars, ret, ensured>>

\* mutant: a rejected login is sent a second time
LoginResponse_RetriesOnce(p, r) ==
  /\ pc[p] = "login_wait"
  /\ ApplyLogin(r)
  /\ IF ~LoginAccepts(r) /\ logins[p] < 2
       THEN /\ logins' = [logins EXCEPT ![p] = @ + 1]
            /\ UNCHANGED <<pc, ensured, ret, bret, max_retries>>
       ELSE /\ UNCHANGED logins
            /\ IF op[p].kind = "login"
                 THEN /\ pc' = [pc EXCEPT ![p] = "done"]
                      /\ bret' = [bret EXCEPT ![p] = IF LoginAccepts(r) THEN "true" ELSE "false"]
                      /\ UNCHANGED <<ensured, ret, max_retries>>
                 ELSE AfterEnsure(p, LoginAccepts(r))
  /\ UNCHANGED <<config, now, op, attempt, response, hist, made, slept, hdr>>

\* The login POST returns (or raises): the rest of _login_smart1_cloud /
\* _login_on_premise, and what the caller does with the result.
LoginResponse(p, r) ==
  /\ pc[p] = "login_wait"
  /\ ApplyLogin(r)
  /\ IF op[p].kind = "login"
       THEN /\ pc' = [pc EXCEPT ![p] = "done"]
            /\ bret' = [bret EXCEPT ![p] = IF LoginAccepts(r) THEN "true" ELSE "false"]
            /\ UNCHANGED <<ensured, ret, max_retries>>
       ELSE AfterEnsure(p, LoginAccepts(r))
  /\ UNCHANGED <<config, now, op, attempt, response, hist, made, slept, logins,
                 hdr>>

\* mutant: logout forgets the is_authenticated flag
Logout_KeepsFlag(p, r) ==
  /\ pc[p] = "logout"
  /\ pc' = [pc EXCEPT ![p] = "done"]
  /\ IF session = NoSession
       THEN /\ bret' = [bret EXCEPT ![p] = "true"]
            /\ UNCHANGED sessionVars
       ELSE IF r = "exc"
       THEN /\ bret' = [bret EXCEPT ![p] = "false"]
            /\ UNCHANGED sessionVars
       ELSE /\ session' = NoSession
            /\ last_activity' = 0
            /\ bret' = [bret EXCEPT ![p] = "true"]
            /\ UNCHANGED <<session_timeout, is_authenticated>>
  /\ UNCHANGED <<config, now, op, retryVars, ret, ensured, logins>>

\* logout(): r is what the logout POST does, "200", "other" or "exc"
Logout(p, r) ==
  /\ pc[p] = "logout"
  /\ pc' = [pc EXCEPT ![p] = "done"]
  /\ IF session = NoSession
       THEN /\ bret' = [bret EXCEPT ![p] = "true"]
            /\ UNCHANGED sessionVars
       ELSE IF r = "exc"
       THEN /\ bret' = [bret EXCEPT ![p] = "false"]
            /\ UNCHANGED sessionVars
       ELSE /\ session' = NoSession
            /\ is_authenticated' = FALSE
            /\ last_activity' = 0
            /\ bret' = [bret EXCEPT ![p] = "true"]
            /\ UNCHANGED session_timeout
  /\ UNCHANGED <<config, now, op, retryVars, ret, ensured, logins>>

\* _run of a tool wrapper that calls self._client._retry_request itself:
\* the input model is built, then the request goes out.
ToolRun(p) ==
  /\ pc[p] = "tool"
  /\ IF op[p].valid
       THEN /\ pc' = [pc EXCEPT ![p] = "request"]
            /\ max_retries' = [max_retries EXCEPT ![p] = EffectiveRetries(-1)]
       ELSE /\ pc' = [pc EXCEPT ![p] = "done"]
            /\ UNCHANGED max_retries
  /\ UNCHANGED <<config, sessionVars, now, op, attempt, response, ret, hist,
                 made, slept, ensured, logins, bret, hdr>>

\* The input of DiscardChangesTool._run. confirm: "absent" the argument is
\* not given, "false" / "true" it is given, "invalid" it is given and is no
\* boolean, DiscardChangesInput(**kwargs) raises.
DiscardInputs ==
  {[kind |-> "discard_tool", valid |-> c # "invalid", confirm |-> c] :
     c \in {"absent", "false", "true", "invalid"}}

\* input_data.confirm: Field(default=False)
ParsedConfirm(o) == o.confirm = "true"

\* mutant: only an explicit confirm=false asks for confirmation
NeedsConfirmation_OnlyExplicitFalse(o) == o.confirm = "false"

\* if not input_data.confirm: return (the confirmation-required text)
NeedsConfirmation(o) == ~ParsedConfirm(o)

\* DiscardChangesTool._run up to self._client.discard_changes(), which is
\* a domain operation: ensure_authenticated(), then _retry_request
DiscardToolRun(p) ==
  /\ pc[p] = "discard_tool"
  /\ pc' = [pc EXCEPT ![p] = IF ~op[p].valid \/ NeedsConfirmation(op[p])
                               THEN "done" ELSE "ensure"]
  /\ UNCHANGED <<config, sessionVars, now, op, retryVars, ret, ensured, logins,
                 bret>>

\* the text DiscardChangesTool._run returns once it is done
DiscardToolMessage(p) ==
  IF ~op[p].valid THEN "Error discarding changes"
  ELSE IF NeedsConfirmation(op[p]) THEN "Discard changes requires confirmation"
  ELSE IF ret[p].success THEN "Successfully discarded all pending changes"
  ELSE "Failed to discard changes"

\* time passes
Tick ==
  /\ now < MaxTime
  /\ now' = now + 1
  /\ UNCHANGED <<config, sessionVars, pc, op, retryVars, ret, ensured, logins, bret>>

Step(p) ==
  \/ \E o \in Operations : StartOp(p, o)
  \/ EnsureAuthenticated(p)
  \/ Login(p)
  \/ \E r \in LoginResponses : LoginResponse(p, r)
  \/ \E r \in {"200", "other", "exc"} : Logout(p, r)
  \/ ToolRun(p)
  \/ \E o \in Outcomes : MakeRequest(p, o)
  \/ Sleep(p)

(* ------------------------------- Spec --------------------------------- *)

\* the backoff of every retry_delay is covered by SpecRetry; here the
\* client sleeps retry_delay = 1
Init ==
  /\ config \in {c \in Configs(ClientRetries) : c.retry_delay = 1}
  /\ SessionInit
  /\ now = 0
  /\ ProcInit

\* one thread drives the client
Next == Step(1) \/ Tick

Spec == Init /\ [][Next]_vars

(* ----------------------------- SpecConc ------------------------------- *)

\* Two threads share one client and run domain operations; no lock guards
\* the session manager. The client is configured without retries, so the
\* retry loop never sleeps here.
InitConc ==
  /\ config \in {c \in Configs(0) : c.retry_delay = 1 /\ c.auth_method # "other"}
  /\ SessionInit
  /\ now = 0
  /\ ProcInit

StepConc(p) ==
  \/ \E o \in {x \in Operations : x.kind = "domain"} : StartOp(p, o)
  \/ EnsureAuthenticated(p)
  \/ \E r \in LoginResponses : LoginResponse(p, r)
  \/ \E o \in Outcomes : MakeRequest(p, o)

NextConc == (\E p \in Procs : StepConc(p)) \/ Tick

SpecConc == InitConc /\ [][NextConc]_vars

(* ---------------------------- SpecDiscard ----------------------------- *)

\* One thread runs DiscardChangesTool on its client, again and again.
StepDiscard(p) ==
  \/ \E o \in DiscardInputs : StartOp(p, o)
  \/ DiscardToolRun(p)
  \/ EnsureAuthenticated(p)
  \/ \E r \in LoginResponses : LoginResponse(p, r)
  \/ \E o \in Outcomes : MakeRequest(p, o)
  \/ Sleep(p)

NextDiscard == StepDiscard(1) \/ Tick

SpecDiscard == Init /\ [][NextDiscard]_vars

(* ------------------- properties of _retry_request --------------------- *)

\* number of _make_request calls of the current _retry_request
Calls(p) == Len(hist[p])

\* status codes the retry policy names as transient
TransientCodes == (500..599) \cup {408, 429}

\* client errors that are not retried
PermanentClientCodes == (400..499) \ {408, 429}

RECURSIVE SumSeq(_)
SumSeq(s) == IF s = << >> THEN 0 ELSE Head(s) + SumSeq(Tail(s))

\* C1: for every max_retries >= 0 and every sequence of outcomes,
\* _retry_request makes at least 1 and at most max_retries+1 calls of
\* _make_request, returns the envelope of the last call it made, and
\* terminates.
C1_BoundedCallsAndTermination ==
  /\ [](\A p \in Procs :
          /\ Calls(p) <= max_retries[p] + 1
          /\ pc[p] = "done" => /\ Calls(p) >= 1
                               /\ ret[p] = made[p]
                               /\ ret[p].status_code = hist[p][Calls(p)])
  /\ \A p \in Procs : [](pc[p] \in {"request", "sleep"} => <>(pc[p] = "done"))

C1_Witness ==
  /\ pc[1] = "done"
  /\ max_retries[1] >= 2
  /\ Calls(1) = max_retries[1] + 1
  /\ ~ret[1].success

\* C2: when the first envelope carries a client error in [400,500) other
\* than 408 and 429 (401 and 403 included), exactly one call is made
\* whatever max_retries is, nothing is slept, and that failure is returned.
C2_ClientErrorStopsAtOnce ==
  \A p \in Procs :
    (Calls(p) >= 1 /\ hist[p][1] \in PermanentClientCodes) =>
       /\ Calls(p) = 1
       /\ slept[p] = << >>
       /\ pc[p] = "done"
       /\ ~ret[p].success
       /\ ret[p] = made[p]
       /\ ret[p].status_code = hist[p][1]

C2_Witness ==
  /\ pc[1] = "done"
  /\ max_retries[1] >= 2
  /\ hist[1] \in {<<400>>, <<401>>}
  /\ now = 0

\* C3: the loop stops at the first successful attempt: a success is the
\* last call made, k failures before it give exactly k+1 calls, and the
\* returned envelope has success = true.
C3_StopsAtFirstSuccess ==
  \A p \in Procs :
    /\ made[p].success <=> (Calls(p) >= 1 /\ hist[p][Calls(p)] = 200)
    /\ \A k \in 1..Calls(p) :
         hist[p][k] = 200 => /\ k = Calls(p)
                             /\ pc[p] = "done"
                             /\ ret[p].success
                             /\ ret[p] = made[p]

C3_Witness ==
  /\ pc[1] = "done"
  /\ max_retries[1] = 3
  /\ hist[1] = <<503, 503, 200>>
  /\ ret[1].success

\* C4: when every attempt returns a transient failure, exactly
\* max_retries+1 calls are made and the last failure is returned.
C4_AllFailuresUseWholeBudget ==
  \A p \in Procs :
    (pc[p] = "done" /\ \A k \in 1..Calls(p) : hist[p][k] \in TransientCodes) =>
       /\ Calls(p) = max_retries[p] + 1
       /\ ~ret[p].success
       /\ ret[p] = made[p]
       /\ ret[p].status_code = hist[p][Calls(p)]

C4_Witness ==
  /\ pc[1] = "done"
  /\ max_retries[1] = 2
  /\ hist[1] = <<500, 500, 500>>

\* C5 as stated: a further attempt follows a failed one only when its
\* status code is 5xx, 408 or 429.
C5_RetryOnlyOnTransientCodes ==
  \A p \in Procs : \A k \in 1..(Calls(p) - 1) : hist[p][k] \in TransientCodes

\* C5 as amended: a further attempt follows a failed one only when its
\* status code lies outside [400,500) or is 408 or 429 (5xx and the
\* synthesized codes, and also a non-200 code below 400); a failure in
\* [400,500) other than 408/429 ends the loop; the loop ends only in
\* success, authentication failure, non-retryable client error or with the
\* budget used up.
C5_RetryUnlessPermanentClientError ==
  \A p \in Procs :
    /\ \A k \in 1..(Calls(p) - 1) :
         hist[p][k] # 200 /\ hist[p][k] \notin PermanentClientCodes
    /\ pc[p] = "done" =>
         \/ ret[p].success
         \/ ret[p].status_code \in {401, 403}
         \/ ret[p].status_code \in PermanentClientCodes
         \/ Calls(p) = max_retries[p] + 1

C5_Witness ==
  /\ pc[1] = "done"
  /\ Calls(1) >= 2
  /\ hist[1][1] = 204
  /\ ret[1].status_code = 400

\* C6: an attempt that fails with a transient outcome (5xx, 408, 429, the
\* synthesized 408 / 503 / 500) while attempts remain is followed by another
\* call: the call has been made, or the thread is in the sleep before it or
\* at the call itself (never at the return).
C6_TransientFailureIsRetried ==
  \A p \in Procs : \A k \in 1..Calls(p) :
    (hist[p][k] \in TransientCodes /\ k - 1 < max_retries[p]) =>
       \/ k < Calls(p)
       \/ pc[p] = "sleep" /\ attempt[p] = k - 1
       \/ pc[p] = "request" /\ attempt[p] = k

C6_Witness ==
  /\ pc[1] = "sleep"
  /\ made[1].message = "Request timeout"
  /\ Calls(1) = 2
  /\ hist[1][1] = 429

\* C7: the sleep after failed attempt k (0-based) is retry_delay * 2^k,
\* whatever the status; nothing is slept after the last attempt, so a run
\* of max_retries+1 failures sleeps retry_delay * (2^max_retries - 1).
C7_ExponentialBackoff ==
  \A p \in Procs :
    /\ \A k \in 1..Len(slept[p]) : slept[p][k] = config.retry_delay * 2^(k - 1)
    /\ pc[p] \in {"request", "sleep"} => Len(slept[p]) = attempt[p]
    /\ pc[p] = "sleep" => Calls(p) = Len(slept[p]) + 1
    /\ pc[p] = "done" => Len(slept[p]) = Calls(p) - 1
    /\ (pc[p] = "done" /\ Calls(p) = max_retries[p] + 1) =>
         SumSeq(slept[p]) = config.retry_delay * (2^(max_retries[p]) - 1)

C7_Witness ==
  /\ pc[1] = "done"
  /\ max_retries[1] = 3
  /\ Calls(1) = 4
  /\ hist[1][1] = 429
  /\ hist[1][2] = 500
  /\ config.retry_delay = 2
  /\ SumSeq(slept[1]) = 14
  /\ now = 14

(* --------------------- properties of the operations ------------------ *)

\* C8: when operations run concurrently on one client whose session is
\* absent or expired, the check-validity-then-authenticate sequence of
\* ensure_authenticated is mutually exclusive: at most one thread is between
\* its failed validity check and the end of its login, so one login request
\* is issued and no login overwrites the Session of a concurrent one.
C8_SingleReauthentication ==
  \A p \in Procs : \A q \in Procs :
    (p # q /\ pc[p] = "login_wait") => pc[q] # "login_wait"

\* C9: no operation request reaches _retry_request unless
\* ensure_authenticated() was called at the start of the operation and
\* returned true, for the client methods and for the tool wrappers alike.
C9_RequestsFollowEnsure ==
  \A p \in Procs :
    (pc[p] \in {"request", "sleep"} \/ hist[p] # << >>) => ensured[p] = "true"

\* C10: when ensure_authenticated() returns false inside a domain operation
\* of the client, the operation returns the failure envelope with message
\* "Authentication failed" and no _retry_request / _make_request is made.
C10_AuthFailureShortCircuits ==
  \A p \in Procs :
    (op[p].kind \in ClientOps /\ ensured[p] = "false") =>
       /\ pc[p] = "done"
       /\ ~ret[p].success
       /\ ret[p].message = "Authentication failed"
       /\ hist[p] = << >>
       /\ made[p] = NoEnvelope
       /\ slept[p] = << >>

C10_Witness ==
  /\ pc[1] = "done"
  /\ op[1].kind = "validated"
  /\ ensured[1] = "false"
  /\ logins[1] = 1
  /\ session = NoSession

(* ------------------- properties of the session manager --------------- *)

\* what the caller of a login flow or of ensure_authenticated() got back
Returned(p, b) ==
  IF op[p].kind = "login" THEN bret'[p] = b ELSE ensured'[p] = b

\* C11: in either login flow an HTTP 200 login response without a session
\* identifier leaves the client unauthenticated; no Session with a missing
\* or empty identifier is ever stored.
C11_NoSessionWithoutSid ==
  /\ session # NoSession => session[1].sid > 0
  /\ is_authenticated => session # NoSession

\* C12: a login attempt that ends in a non-200 status or a transport
\* exception returns false and leaves the stored Session, is_authenticated,
\* the last-activity timestamp and the session timeout as they were.
C12_FailedLoginChangesNothing ==
  [][\A p \in Procs : \A r \in LoginResponses :
       (LoginResponse(p, r) /\ (r.kind = "exc" \/ r.status # 200)) =>
          /\ session' = session
          /\ is_authenticated' = is_authenticated
          /\ last_activity' = last_activity
          /\ session_timeout' = session_timeout
          /\ Returned(p, "false")]_vars

C12_Witness ==
  /\ pc[1] = "done"
  /\ op[1].kind = "login"
  /\ logins[1] = 1
  /\ bret[1] = "false"
  /\ session # NoSession
  /\ is_authenticated
  /\ last_activity < now

\* C13: a login answered by HTTP 200 with a session identifier returns true
\* and replaces the session state: the Session holds the response's sid, the
\* timeout is the response's 'session-timeout' (3600 when absent),
\* last-activity is the login time and is_authenticated is true.
C13_SuccessfulLoginReplacesSession ==
  [][\A p \in Procs : \A r \in LoginResponses :
       (LoginResponse(p, r) /\ r.kind = "http" /\ r.status = 200 /\ r.json
          /\ r.sid > 0) =>
          /\ session' # NoSession
          /\ Len(session') = 1
          /\ session'[1].sid = r.sid
          /\ session'[1].session_timeout = (IF r.timeout = 0 THEN 3600 ELSE r.timeout)
          /\ session_timeout' = (IF r.timeout = 0 THEN 3600 ELSE r.timeout)
          /\ last_activity' = now
          /\ is_authenticated'
          /\ Returned(p, "true")]_vars

C13_Witness ==
  /\ pc[1] = "done"
  /\ op[1].kind = "login"
  /\ bret[1] = "true"
  /\ session # NoSession
  /\ session[1].sid = 2
  /\ session_timeout = 1
  /\ last_activity = now
  /\ now >= 1

\* C14: _is_session_valid() is true iff a Session is stored and
\* now - last_activity < session timeout (strictly), and it changes no
\* state: ensure_authenticated() returns true without a login exactly in
\* that case and its validity check leaves the session state alone.
C14_ValidIffStoredAndFresh ==
  [][\A p \in Procs :
       EnsureAuthenticated(p) =>
          /\ (ensured'[p] = "true" /\ pc'[p] # "login_wait")
               <=> (session # NoSession /\ now - last_activity < session_timeout)
          /\ UNCHANGED <<session, last_activity, session_timeout, is_authenticated>>]_vars

C14_Witness ==
  /\ pc[1] = "login_wait"
  /\ op[1].kind = "domain"
  /\ session # NoSession
  /\ now - last_activity = session_timeout

(* ------------------- properties of the request layer ------------------ *)

\* C15 (as stated): every _make_request, whatever its outcome - HTTP 200,
\* HTTP non-200, timeout, connection failure, any other exception - sets the
\* last-activity timestamp to the current time.
C15_EveryOutcomeTouchesActivity ==
  [][\A p \in Procs : \A o \in Outcomes :
       MakeRequest(p, o) => last_activity' = now]_vars

\* C15 (amended): a _make_request whose HTTP call returned a response, with
\* any status, sets the last-activity timestamp to the current time; one
\* whose HTTP call raised (timeout, connection failure, any other exception)
\* leaves the timestamp as it was.
C15_ResponseTouchesActivity ==
  [][\A p \in Procs : \A o \in Outcomes :
       MakeRequest(p, o) =>
         IF o.kind = "http" THEN last_activity' = now
                            ELSE last_activity' = last_activity]_vars

\* a second attempt, made one second after the first one without any login
\* in between, was answered 401 and moved the timestamp to the present
C15_Witness ==
  /\ pc[1] = "done"
  /\ logins[1] = 0
  /\ slept[1] = <<1>>
  /\ hist[1] = <<408, 401>>
  /\ made[1].message = "HTTP <status>"
  /\ last_activity = now

\* C16: after any call to logout() returns, the session is absent,
\* is_authenticated is false and _is_session_valid() is false.
C16_LogoutAlwaysClears ==
  \A p \in Procs :
    (pc[p] = "done" /\ op[p].kind = "logout") =>
       /\ session = NoSession
       /\ ~is_authenticated
       /\ ~IsSessionValid

\* C17: a validating operation given a malformed payload returns the
\* validation failure and issues no HTTP request, neither the operation's
\* nor a login, whatever the session state.
C17_MalformedPayloadIssuesNoRequest ==
  \A p \in Procs :
    (op[p].kind = "validated" /\ ~op[p].valid) =>
       /\ logins[p] = 0
       /\ hist[p] = << >>
       /\ pc[p] = "done" => ret[p] = ValidationEnvelope

\* C18: _make_request performs exactly one HTTP call and always returns an
\* envelope: a timeout gives {false, "Request timeout", 408}, a connection
\* failure {false, "Connection error", 503}, any other exception
\* {false, exception text, 500}.
C18_TransportFailuresBecomeEnvelopes ==
  [][\A p \in Procs : \A o \in Outcomes :
       MakeRequest(p, o) =>
         /\ Len(hist'[p]) = Len(hist[p]) + 1
         /\ DOMAIN made'[p] = {"success", "data", "message", "status_code"}
         /\ made'[p].success \in BOOLEAN
         /\ o.kind = "timeout" =>
              made'[p] = [success |-> FALSE, data |-> Absent,
                          message |-> "Request timeout", status_code |-> 408]
         /\ o.kind = "connerr" =>
              made'[p] = [success |-> FALSE, data |-> Absent,
                          message |-> "Connection error", status_code |-> 503]
         /\ o.kind = "exc" =>
              made'[p] = [success |-> FALSE, data |-> Absent,
                          message |-> "str(e)", status_code |-> 500]]_vars

\* a timeout, retried once, then a connection failure: two calls, two envelopes
C18_Witness ==
  /\ pc[1] = "done"
  /\ hist[1] = <<408, 503>>
  /\ made[1].message = "Connection error"
  /\ ret[1] = made[1]
  /\ last_activity < now

\* C19: for an HTTP response _make_request returns success=true with data =
\* the body exactly when the status is 200, and for every other status
\* success=false with the envelope's status code equal to the HTTP status.
C19_EnvelopeMirrorsHttpStatus ==
  [][\A p \in Procs : \A o \in Outcomes :
       (MakeRequest(p, o) /\ o.kind = "http") =>
          /\ made'[p].success <=> o.status = 200
          /\ o.status = 200 => made'[p].data = o.body
          /\ o.status # 200 => made'[p].status_code = o.status]_vars

\* C20: every envelope returned by _make_request, _retry_request or a domain
\* operation has no message when success is true and has a message when
\* success is false.
C20_MessageIffFailure ==
  \A p \in Procs :
    /\ \A e \in {made[p], response[p]} \ {NoEnvelope} :
         IF e.success THEN e.message = Absent ELSE e.message # Absent
    /\ (pc[p] = "done" /\ op[p].kind \in ClientOps) =>
         /\ ret[p] # NoEnvelope
         /\ IF ret[p].success THEN ret[p].message = Absent
                              ELSE ret[p].message # Absent

\* a domain operation failed once, was retried and returned a success
C20_Witness ==
  /\ pc[1] = "done"
  /\ op[1].kind \in ClientOps
  /\ Len(hist[1]) = 2
  /\ response[1] = ret[1]
  /\ ret[1].success
  /\ ret[1].message = Absent

(* ---------------- properties of the client as a whole ----------------- *)

\* C21: every envelope returned by _make_request, _retry_request or a domain
\* operation, the short-circuit returns (authentication failed, validation
\* error) included, carries an integer status code.
C21_EnvelopeCarriesStatusCode ==
  \A p \in Procs :
    /\ made[p] # NoEnvelope => made[p].status_code # NoStatus
    /\ (pc[p] = "done" /\ op[p].kind \in ClientOps) =>
          ret[p].status_code # NoStatus

\* C22: ensure_authenticated() with a stored session whose idle time is below
\* the timeout returns true, issues no HTTP request and changes no session
\* state; with an absent or expired session it enters the login flow of the
\* configured method (one login POST) and returns what that login returns.
C22_EnsureAuthenticatedFrame ==
  [][\A p \in Procs :
       /\ (EnsureAuthenticated(p) /\ session # NoSession
             /\ now - last_activity < session_timeout) =>
            /\ ensured'[p] = "true"
            /\ logins' = logins
            /\ hist' = hist
            /\ UNCHANGED sessionVars
       /\ (EnsureAuthenticated(p) /\ config.auth_method \in {"smart1_cloud", "on_premise"}
             /\ (config.auth_method = "smart1_cloud" => config.api_key)
             /\ (session = NoSession \/ now - last_activity >= session_timeout)) =>
            /\ pc'[p] = "login_wait"
            /\ logins'[p] = logins[p] + 1
            /\ ensured'[p] = "none"
            /\ UNCHANGED sessionVars
       /\ (pc[p] = "login_wait" /\ op[p].kind # "login") =>
            \A r \in LoginResponses :
              LoginResponse(p, r) =>
                /\ ensured'[p] \in {"true", "false"}
                /\ ensured'[p] = "true" <=>
                     /\ r.kind = "http"
                     /\ r.status = 200
                     /\ r.json
                     /\ config.auth_method = "smart1_cloud" => r.sid > 0
                /\ op[p].kind = "ensure" => bret'[p] = ensured'[p]]_vars

\* the stored session had expired; ensure_authenticated() logged in once and
\* returned the login's true
C22_Witness ==
  /\ pc[1] = "done"
  /\ op[1].kind = "ensure"
  /\ bret[1] = "true"
  /\ logins[1] = 1
  /\ session # NoSession
  /\ session_timeout = 1
  /\ last_activity = now
  /\ now = 2

\* C23: the authenticator never retries: a call of login() or
\* ensure_authenticated() issues at most one login POST, and a failed login
\* is reported once, as false.
C23_LoginIsNeverRetried ==
  \A p \in Procs :
    /\ logins[p] <= 1
    /\ pc[p] = "login_wait" => logins[p] = 1
    /\ (pc[p] = "done" /\ op[p].kind \in {"login", "ensure"}) =>
          /\ bret[p] \in {"true", "false"}
          /\ session = NoSession => bret[p] = "false"

\* ensure_authenticated() sent one login POST, it failed, false came back
C23_Witness ==
  /\ pc[1] = "done"
  /\ op[1].kind = "ensure"
  /\ logins[1] = 1
  /\ ensured[1] = "false"
  /\ bret[1] = "false"

\* C24: with a non-decreasing clock and no logout in between, the
\* last-activity timestamp never decreases, whatever requests and
\* re-authentications happen; it never lies in the future.
C24_ActivityIsMonotonic ==
  /\ [](last_activity <= now)
  /\ [][(\A p \in Procs : pc[p] # "logout") => last_activity' >= last_activity]_vars

\* two requests of one operation, one second apart, both answered: the
\* timestamp moved forward with the second
C24_Witness ==
  /\ pc[1] = "done"
  /\ logins[1] = 0
  /\ slept[1] = <<1>>
  /\ hist[1] = <<500, 200>>
  /\ ret[1].success
  /\ last_activity = now
  /\ session # NoSession

\* C25: get_session_headers() raises RuntimeError exactly when no Session is
\* stored and otherwise returns the header with the stored sid; _make_request
\* asks for it only when a Session exists, so a request with no session goes
\* out without the header and nothing is raised.
C25_HeaderOnlyWithSession ==
  /\ [](GetSessionHeaders = RaisesRuntimeError <=> session = NoSession)
  /\ [](session # NoSession => GetSessionHeaders = session[1].sid)
  /\ [](\A p \in Procs : pc[p] # "raised")
  /\ [][\A p \in Procs :
          (pc[p] = "request" /\ pc'[p] # "request") =>
             /\ Len(hist'[p]) = Len(hist[p]) + 1
             /\ hdr'[p] = IF session = NoSession THEN NoHeader
                                                 ELSE session[1].sid]_vars

\* a tool sent its request with no session stored: no header, an envelope back
C25_Witness ==
  /\ pc[1] = "done"
  /\ op[1].kind = "tool"
  /\ session = NoSession
  /\ hist[1] # << >>
  /\ hdr[1] = NoHeader
  /\ ret[1] = made[1]

\* C26: a 401 or 403 response ends the operation without clearing the
\* session, without a login and with last-activity refreshed, so the session
\* is still valid afterwards; ensure_authenticated() on a valid session
\* returns true without a login.
C26_AuthErrorKeepsSession ==
  [][\A p \in Procs :
       /\ (pc[p] = "request" /\ pc'[p] # "request"
             /\ made'[p].status_code \in {401, 403}) =>
            /\ session' = session
            /\ is_authenticated' = is_authenticated
            /\ session_timeout' = session_timeout
            /\ logins' = logins
            /\ pc'[p] = "done"
            /\ last_activity' = now
            /\ session # NoSession => now' - last_activity' < session_timeout'
       /\ (pc[p] = "ensure" /\ pc'[p] # "ensure" /\ session # NoSession
             /\ now - last_activity < session_timeout) =>
            /\ ensured'[p] = "true"
            /\ logins' = logins
            /\ session' = session]_vars

\* at time 2 a request carrying the stored sid was answered
\* 403: the session is still stored, counted as valid, and no login was made
C26_Witness ==
  /\ pc[1] = "done"
  /\ op[1].kind = "domain"
  /\ ensured[1] = "true"
  /\ logins[1] = 0
  /\ hist[1] = <<403>>
  /\ session # NoSession
  /\ hdr[1] = session[1].sid
  /\ is_authenticated
  /\ IsSessionValid
  /\ last_activity = now
  /\ now = 2

\* C27: is_authenticated is true exactly when a Session is stored.
C27_FlagIffSession ==
  is_authenticated <=> session # NoSession

\* a session with a declared timeout had been stored, logout() cleared it
C27_Witness ==
  /\ pc[1] = "done"
  /\ op[1].kind = "logout"
  /\ bret[1] = "true"
  /\ session = NoSession
  /\ ~is_authenticated
  /\ session_timeout = 1
  /\ last_activity = 0
  /\ now >= 1

\* C28: inside _retry_request no login is issued and the stored Session and
\* is_authenticated never change; validity is not looked at again, every
\* attempt carries the stored sid whether or not its idle timeout has run out.
C28_RetryLoopNeverReauthenticates ==
  [][\A p \in Procs :
       pc[p] \in {"request", "sleep"} =>
          /\ session' = session
          /\ is_authenticated' = is_authenticated
          /\ session_timeout' = session_timeout
          /\ logins' = logins
          /\ ensured' = ensured
          /\ pc'[p] \in {"request", "sleep", "done"}
          /\ (pc[p] = "request" /\ pc'[p] # "request" /\ session # NoSession) =>
                hdr'[p] = session[1].sid]_vars

\* both attempts failed in the transport; the second one left after the
\* backoff sleep, when the idle timeout had run out, with the stored sid
C28_Witness ==
  /\ pc[1] = "done"
  /\ ensured[1] = "true"
  /\ logins[1] = 0
  /\ hist[1] = <<408, 503>>
  /\ slept[1] = <<1>>
  /\ session # NoSession
  /\ hdr[1] = session[1].sid
  /\ hdr[1] > 0
  /\ now - last_activity >= session_timeout

C30_DiscardRequiresConfirmation ==
  /\ [](\A p \in Procs :
          (op[p].kind = "discard_tool" /\ op[p].confirm # "true") =>
             /\ pc[p] \in {"discard_tool", "done"}
             /\ ensured[p] = "none"
             /\ logins[p] = 0
             /\ hist[p] = << >>
             /\ hdr[p] = NoHeader
             /\ (pc[p] = "done" /\ op[p].confirm \in {"absent", "false"}) =>
                   DiscardToolMessage(p) = "Discard changes requires confirmation")
  /\ [][\A p \in Procs :
          (pc[p] = "discard_tool" /\ op[p].confirm # "true") =>
             /\ UNCHANGED sessionVars
             /\ ret' = ret
             /\ pc'[p] \in {"discard_tool", "done"}]_vars

\* a session is stored; the tool, called without confirm, returned at once
C30_Witness ==
  /\ pc[1] = "done"
  /\ op[1].kind = "discard_tool"
  /\ op[1].confirm = "absent"
  /\ session # NoSession
  /\ is_authenticated
  /\ hist[1] = << >>
  /\ ensured[1] = "none"

====
